---- MODULE Spec2Model ----
(***************************************************************************)
(* Model of mk8's kubeconfig store (src/mk8/integrations/kubeconfig.py):   *)
(* KubeconfigManager's read / atomic write / backup / cleanup and its      *)
(* add_cluster, remove_cluster and set_current_context mutators; of the    *)
(* resilient teardowns (uninstall_crossplane, delete_cluster); and of the  *)
(* readiness waits (KindClient.wait_for_ready, the installer's waits).     *)
(*                                                                         *)
(* Spec      calls of the mutators on a working file system, each handler  *)
(*           one atomic action.                                            *)
(* SpecIO    the same handlers with an I/O fault injected at a chosen step *)
(*           of _write_config, and a clock that advances between calls.    *)
(* SpecConc  two managers running _write_config on one path, step by step. *)
(* SpecRead  the mutators and the query helpers on files that may be       *)
(*           malformed or lack a required field.                           *)
(* SpecTeardown  "crossplane uninstall" and "bootstrap delete", one try    *)
(*           block at a time, each step failing or not.                    *)
(* SpecWait  the polling loops, one loop test, probe or sleep at a time.   *)
(***************************************************************************)
EXTENDS Integers, Sequences, FiniteSets, TLC

VARIABLES
    file,              \* the destination file, self.config_path
    tmp,               \* the temporary file, config_path.with_suffix(".tmp")
    backups,           \* the files backups/config.backup.<timestamp>
    now,               \* the clock, in ticks
    previous_context,  \* self._previous_context of each manager
    last,              \* the last call: operation, arguments, outcome
    snaps,             \* texts the successful overwriting writes replaced
    ops,               \* number of calls made so far
    pc,                \* SpecConc: each writer's position in _write_config
    handle,            \* SpecConc: the name the writer's open file now has
    td,                \* SpecTeardown: the teardown under way
    wt,                \* SpecWait: the readiness wait under way
    st,                \* SpecStatus: the status report last computed
    bs                 \* SpecLifecycle: the bootstrap cluster and the run under way

vars ==
    <<file, tmp, backups, now, previous_context, last, snaps, ops, pc, handle, td, wt,
      st, bs>>

-----------------------------------------------------------------------------
(* Bounds *)

MaxOps == 3
MaxFaults == 1
MaxTime == 2
TicksPerSec == 2
max_backups == 2

-----------------------------------------------------------------------------
(* Values *)

None == "<None>"
EmptyMap == "{}"
Unserializable == "object()"

Instances == {1, 2}
AddNames == {"demo", "other"}
ContextNames == {"demo", "dev"}

Min(a, b) == IF a <= b THEN a ELSE b

Truthy(x) == x # None /\ x # ""

ClusterEntry(n, payload) == [name |-> n, cluster |-> payload]

\* a context that refers to one user shared by all clusters
ContextEntry_SharedUser(n) == [name |-> n, context |-> [cluster |-> n, user |-> "admin"]]

ContextEntry(n) == [name |-> n, context |-> [cluster |-> n, user |-> n]]
UserEntry(n) == [name |-> n, user |-> EmptyMap]

Names(entries) == [i \in DOMAIN entries |-> entries[i].name]

InSeq(x, s) == \E i \in DOMAIN s : s[i] = x

Without(entries, n) == SelectSeq(entries, LAMBDA e : e.name # n)

-----------------------------------------------------------------------------
(* Documents and their serialized text.  yaml.safe_dump writes one        *)
(* top-level key after another in sorted key order; the text is modelled   *)
(* as the sequence of <<key, value>> lines, and a torn file as a sequence  *)
(* that is not the whole dump of any document.                             *)

SortedKeys ==
    <<"apiVersion", "clusters", "contexts", "current-context", "kind",
      "preferences", "users">>

required_fields == {"apiVersion", "kind", "clusters", "contexts", "users"}

Hole == <<"\\0", "\\0">>

DefaultConfig ==
    [k \in {SortedKeys[i] : i \in DOMAIN SortedKeys} |->
        CASE k = "apiVersion" -> "v1"
          [] k = "kind" -> "Config"
          [] k = "clusters" -> <<>>
          [] k = "contexts" -> <<>>
          [] k = "users" -> <<>>
          [] k = "current-context" -> None
          [] k = "preferences" -> EmptyMap]

Get(config, k) == IF k \in DOMAIN config THEN config[k] ELSE None

GetList(config, k) == IF k \in DOMAIN config THEN config[k] ELSE <<>>

Serializable(config) ==
    \A i \in DOMAIN GetList(config, "clusters") :
        config["clusters"][i].cluster # Unserializable

Dump(config) ==
    LET present == SelectSeq(SortedKeys, LAMBDA k : k \in DOMAIN config)
    IN  [i \in DOMAIN present |-> <<present[i], config[present[i]]>>]

Parses(text) == ~ InSeq(Hole, text)

Load(text) ==
    LET keys == {text[i][1] : i \in DOMAIN text}
    IN  [k \in keys |->
            text[CHOOSE i \in DOMAIN text :
                    /\ text[i][1] = k
                    /\ \A j \in DOMAIN text : text[j][1] = k => j <= i][2]]

Absent == [exists |-> FALSE, text |-> <<>>, mtime |-> 0]

File(text, t) == [exists |-> TRUE, text |-> text, mtime |-> t]

-----------------------------------------------------------------------------
(* _read_config *)

ReadConfig(f) ==
    IF ~ f.exists
    THEN [ok |-> TRUE, config |-> DefaultConfig, err |-> "none"]
    ELSE IF ~ Parses(f.text)
    THEN [ok |-> FALSE, config |-> DefaultConfig, err |-> "invalid_yaml"]
    ELSE IF f.text = <<>>
    THEN [ok |-> FALSE, config |-> DefaultConfig, err |-> "invalid_structure"]
    ELSE IF ~ (required_fields \subseteq DOMAIN Load(f.text))
    THEN [ok |-> FALSE, config |-> DefaultConfig, err |-> "missing_field"]
    ELSE [ok |-> TRUE, config |-> Load(f.text), err |-> "none"]

\* the suggestions the raise statements of _read_config are written with
CorruptionHints ==
    <<"Validate YAML syntax: yamllint ~/.kube/config",
      "Restore from backup in ~/.kube/backups/",
      "Check for manual edits that may have introduced errors">>

MissingFieldHints ==
    <<"Restore from backup in ~/.kube/backups/", "Recreate kubeconfig file">>

PermissionHints ==
    <<"Check file permissions: chmod 600 ~/.kube/config",
      "Ensure you own the file: ls -la ~/.kube/config">>

NoError == [type |-> "none", message |-> "", suggestions |-> <<>>]

Error(type, message, suggestions) ==
    [type |-> type, message |-> message, suggestions |-> suggestions]

\* lines 83-106: the exception raised inside the try block
RaisedInTry(err) ==
    CASE err = "invalid_yaml" ->
            Error("YAMLError", "while parsing a flow mapping", <<>>)
      [] err = "invalid_structure" ->
            Error("KubeconfigError", "Kubeconfig file contains invalid structure",
                  CorruptionHints)
      [] err = "missing_field" ->
            Error("KubeconfigError", "Kubeconfig file missing required field",
                  MissingFieldHints)
      [] OTHER -> NoError

\* lines 110-127, the handlers around the try block: yaml.YAMLError is caught
\* by the first, every other exception, a KubeconfigError raised inside the
\* block included, by "except Exception", which raises a new error carrying
\* str(e), the message alone, and its own suggestions
ReadError(f) ==
    LET e == RaisedInTry(ReadConfig(f).err)
    IN  IF ReadConfig(f).ok THEN NoError
        ELSE IF e.type = "YAMLError"
        THEN Error("KubeconfigError",
                   "Kubeconfig file contains invalid YAML: " \o e.message,
                   CorruptionHints)
        ELSE Error("KubeconfigError",
                   "Failed to read kubeconfig file: " \o e.message,
                   PermissionHints)

-----------------------------------------------------------------------------
(* _create_backup and _cleanup_old_backups *)

\* datetime.now().strftime("%Y-%m-%dT%H-%M-%S"): the clock cut to seconds
Timestamp(t) == t \div TicksPerSec

BackupFile(n, text, mtime) == [name |-> n, text |-> text, mtime |-> mtime]

\* shutil.copy2 to backups/config.backup.<timestamp>: a file of that name is
\* overwritten, and the copy keeps the source's modification time
CopyTo(bk, f, text, t) ==
    {b \in bk : b.name # Timestamp(t)} \cup {BackupFile(Timestamp(t), text, f.mtime)}

\* a copy that leaves a backup of the same name as it is
CreateBackup_KeepExisting(bk, f, t) ==
    IF \E b \in bk : b.name = Timestamp(t) THEN bk ELSE CopyTo(bk, f, f.text, t)

CreateBackup(bk, f, t) == CopyTo(bk, f, f.text, t)

\* what a copy that fails part-way can leave under the backup's name
PartialCopies(bk, f, t) ==
    {bk} \cup {CopyTo(bk, f, SubSeq(f.text, 1, n), t) : n \in {0, Len(f.text) \div 2}}

\* sorted(..., key=st_mtime, reverse=True)[:max_backups]: the newest
\* max_backups files are kept; among equal mtimes the glob order decides
KeepChoices(bk) ==
    {K \in SUBSET bk :
        /\ Cardinality(K) = Min(max_backups, Cardinality(bk))
        /\ \A k \in K : \A p \in bk \ K : k.mtime >= p.mtime}

\* a cleanup that raises part-way is swallowed: not everything is pruned
PartialCleanups(bk) ==
    {R \in SUBSET bk : \E K \in KeepChoices(bk) : K \subseteq R /\ R # K}

-----------------------------------------------------------------------------
(* _write_config as one call.  fault names the step at which the file      *)
(* system fails in this call ("none": no step fails).                      *)

Faults ==
    {"none", "mkdir", "backup_copy", "backup_chmod", "temp_write", "reparse",
     "rename", "chmod", "cleanup"}

\* the faults that can occur in a write over destination f with backups bk
FaultApplies(f, bk, fault) ==
    /\ fault \in {"backup_copy", "backup_chmod"} => f.exists
    /\ fault = "cleanup" => f.exists \/ bk # {}

\* what a call leaves: the destination, the backups, whether it returned or
\* raised and at which step, and (backed) the backups as they were when the
\* backup step was over
Outcome(f, backed, bk, ok, failedAt) ==
    [file |-> f, backed |-> backed, backups |-> bk, ok |-> ok, failedAt |-> failedAt]

\* a write that goes to the destination itself, with no temporary file
Commit_InPlace(f, written, fault) ==
    IF fault = "rename" THEN f ELSE written

\* a write that renames first and parses the file back afterwards
Commit_ValidateAfterRename(f, written, fault) ==
    IF fault \in {"temp_write", "rename"} THEN f ELSE written

\* lines 153-161: the destination is replaced by the rename alone, which is
\* reached only after the temporary file was written and parsed back
Commit(f, written, fault) ==
    IF fault \in {"temp_write", "reparse", "rename"} THEN f ELSE written

\* lines 143-144: the backup is made only of a destination that exists
BackupStep(f, bk, t) == IF f.exists THEN CreateBackup(bk, f, t) ELSE bk

WriteConfig(f, bk, config, fault, t) ==
    IF fault = "mkdir" THEN {Outcome(f, bk, bk, FALSE, "mkdir")}
    ELSE IF f.exists /\ fault = "backup_copy"
    THEN {Outcome(f, b, b, FALSE, "backup") : b \in PartialCopies(bk, f, t)}
    ELSE LET bk1 == BackupStep(f, bk, t)
             dest == Commit(f, File(Dump(config), t), fault)
         IN  IF f.exists /\ fault = "backup_chmod"
             THEN {Outcome(f, bk1, bk1, FALSE, "backup")}
             ELSE IF ~ Serializable(config)
             THEN {Outcome(f, bk1, bk1, FALSE, "serialize")}
             ELSE IF fault \in {"temp_write", "reparse", "rename", "chmod"}
             THEN {Outcome(dest, bk1, bk1, FALSE, fault)}
             ELSE IF fault = "cleanup"
             THEN {Outcome(dest, bk1, b, TRUE, "none") :
                      b \in PartialCleanups(bk1) \cup {bk1}}
             ELSE {Outcome(dest, bk1, b, TRUE, "none") : b \in KeepChoices(bk1)}

-----------------------------------------------------------------------------
(* _resolve_naming_conflict *)

Suffixed(desired_name, suffix) == desired_name \o "-" \o ToString(suffix)

RECURSIVE NextSuffix(_, _, _)
NextSuffix(desired_name, existing_names, suffix) ==
    IF InSeq(Suffixed(desired_name, suffix), existing_names)
    THEN NextSuffix(desired_name, existing_names, suffix + 1)
    ELSE suffix

\* a resolution that appends "-2" without probing
ResolveNamingConflict_NoProbe(desired_name, existing_names) ==
    IF ~ InSeq(desired_name, existing_names)
    THEN desired_name
    ELSE Suffixed(desired_name, 2)

ResolveNamingConflict(desired_name, existing_names) ==
    IF ~ InSeq(desired_name, existing_names)
    THEN desired_name
    ELSE Suffixed(desired_name, NextSuffix(desired_name, existing_names, 2))

-----------------------------------------------------------------------------
(* The documents add_cluster, remove_cluster and set_current_context build *)

Put(config, k, v) ==
    [x \in DOMAIN config \cup {k} |-> IF x = k THEN v ELSE config[x]]

FinalClusterName(config, cluster_name) ==
    ResolveNamingConflict(cluster_name, Names(GetList(config, "clusters")))

\* an addition that makes the new context current whatever set_current says
WithCluster_AlwaysCurrent(config, final, cluster_config, set_current) ==
    LET c1 == Put(config, "clusters",
                  Append(GetList(config, "clusters"), ClusterEntry(final, cluster_config)))
        c2 == Put(c1, "contexts", Append(GetList(c1, "contexts"), ContextEntry(final)))
        c3 == Put(c2, "users", Append(GetList(c2, "users"), UserEntry(final)))
    IN  Put(c3, "current-context", final)

\* add_cluster, lines 269-292
WithCluster(config, final, cluster_config, set_current) ==
    LET c1 == Put(config, "clusters",
                  Append(GetList(config, "clusters"), ClusterEntry(final, cluster_config)))
        c2 == Put(c1, "contexts", Append(GetList(c1, "contexts"), ContextEntry(final)))
        c3 == Put(c2, "users", Append(GetList(c2, "users"), UserEntry(final)))
    IN  IF set_current THEN Put(c3, "current-context", final) ELSE c3

\* a manager that remembers a context only while it remembers none
PreviousOnAdd_KeepFirst(previous, config, set_current) ==
    IF set_current /\ previous = None THEN Get(config, "current-context") ELSE previous

\* add_cluster, lines 261-262: what the manager remembers
PreviousOnAdd(previous, config, set_current) ==
    IF set_current THEN Get(config, "current-context") ELSE previous

\* a removal that does not look for the cluster first
ClusterFound_Unchecked(config, cluster_name) == TRUE

\* remove_cluster, line 352: any(c["name"] == cluster_name for c in clusters)
ClusterFound(config, cluster_name) ==
    InSeq(cluster_name, Names(GetList(config, "clusters")))

\* a removal that drops the contexts referring to the cluster
RemoveEntries_ByReference(config, cluster_name) ==
    LET c1 == Put(config, "clusters", Without(GetList(config, "clusters"), cluster_name))
        c2 == Put(c1, "contexts",
                  SelectSeq(GetList(c1, "contexts"),
                            LAMBDA e : e.context.cluster # cluster_name))
    IN  Put(c2, "users", Without(GetList(c2, "users"), cluster_name))

\* remove_cluster, lines 361-374
RemoveEntries(config, cluster_name) ==
    LET c1 == Put(config, "clusters", Without(GetList(config, "clusters"), cluster_name))
        c2 == Put(c1, "contexts", Without(GetList(c1, "contexts"), cluster_name))
    IN  Put(c2, "users", Without(GetList(c2, "users"), cluster_name))

\* a restoration that does not check that the remembered context still exists
ReplacementContext_NoCheck(contexts, restore_previous_context, previous) ==
    IF restore_previous_context /\ Truthy(previous) THEN previous
    ELSE IF contexts # <<>> THEN contexts[1].name
    ELSE None

\* remove_cluster, lines 379-396: the context that replaces a removed current one
ReplacementContext(contexts, restore_previous_context, previous) ==
    IF restore_previous_context /\ Truthy(previous)
    THEN IF InSeq(previous, Names(contexts)) THEN previous
         ELSE IF contexts # <<>> THEN contexts[1].name
         ELSE None
    ELSE IF contexts # <<>> THEN contexts[1].name
    ELSE None

\* remove_cluster, lines 376-396
WithoutCluster(config, cluster_name, restore_previous_context, previous) ==
    LET c == RemoveEntries(config, cluster_name)
    IN  IF Get(c, "current-context") = cluster_name
        THEN Put(c, "current-context",
                 ReplacementContext(c["contexts"], restore_previous_context, previous))
        ELSE c

-----------------------------------------------------------------------------
(* Initial documents *)

Doc(clusters, contexts, users, current) ==
    Put(Put(Put(Put(DefaultConfig, "clusters", clusters), "contexts", contexts),
            "users", users), "current-context", current)

\* two clusters registered through the store, "demo" current
TwoClusters ==
    Doc(<<ClusterEntry("demo", "p"), ClusterEntry("other", "q")>>,
        <<ContextEntry("demo"), ContextEntry("other")>>,
        <<UserEntry("demo"), UserEntry("other")>>, "demo")

\* a document another tool has edited: a context "dev" of its own comes first
Foreign ==
    Doc(<<ClusterEntry("demo", "p"), ClusterEntry("demo-2", "q")>>,
        <<[name |-> "dev", context |-> [cluster |-> "demo", user |-> "admin"]],
          ContextEntry("demo"), ContextEntry("other")>>,
        <<[name |-> "admin", user |-> "token"], UserEntry("demo")>>, "other")

\* no teardown under way
NoTeardown ==
    [proc |-> "none", pc |-> "idle", attempted |-> <<>>, failed |-> <<>>,
     errors |-> <<>>, cleaned_up |-> <<>>, out |-> <<>>, exit |-> None]

\* what a probe finds: kubectl's return code and the STATUS of each node it
\* lists, the pods of the namespace (ready or not), whether the resource
\* exists and the status of each of its conditions; or the probe raises
NoObservation ==
    [raises |-> FALSE, returncode |-> 0, nodes |-> <<>>, pods |-> <<>>,
     exists |-> FALSE, conditions |-> <<>>]

\* no wait under way
NoWait ==
    [wait |-> "none", timeout |-> 0, start_time |-> 0, began |-> 0, clock |-> 0,
     pc |-> "idle", probes |-> 0, sleeps |-> 0, slept |-> 0, busy |-> 0,
     ready |-> FALSE, obs |-> NoObservation, error |-> NoError]

\* no status computed
NoStatus == [of |-> "none"]

\* no bootstrap cluster, no run under way
NoBootstrap ==
    [kind |-> FALSE, run |-> "none", pc |-> "idle", nested |-> FALSE, runs |-> 0,
     trace |-> <<>>, errors |-> <<>>, raised |-> FALSE, added |-> {}]

NoCall ==
    [op |-> "none", m |-> 0, name |-> None, flag |-> FALSE, final |-> None,
     candidate |-> <<>>, backed |-> {}, ok |-> TRUE, failedAt |-> "none",
     ret |-> None, read_error |-> NoError]

\* the record of a call; every mutator is declared -> None and has no return
\* statement, so what the caller receives is None
Call(op, m, n, flag, final, candidate, backed, ok, failedAt) ==
    [op |-> op, m |-> m, name |-> n, flag |-> flag, final |-> final,
     candidate |-> candidate, backed |-> backed, ok |-> ok, failedAt |-> failedAt,
     ret |-> None, read_error |-> NoError]

\* the record of a call of a query helper, which returns value; read_error is
\* the error _read_config raised inside it, if any
Returned(op, m, n, value, error) ==
    [Call(op, m, n, FALSE, None, <<>>, backups, TRUE, "none")
        EXCEPT !.ret = value, !.read_error = error]

\* a memory that all managers of the process share
Remember_Shared(memory, m, value) == [x \in DOMAIN memory |-> value]

\* self._previous_context = value: an attribute of the manager m alone
Remember(memory, m, value) == [memory EXCEPT ![m] = value]

InitWith(files) ==
    /\ file \in files
    /\ tmp = Absent
    /\ backups = {}
    /\ now = 0
    /\ previous_context = [m \in Instances |-> None]
    /\ last = NoCall
    /\ snaps = [texts |-> <<>>, faults |-> 0]
    /\ ops = 0
    /\ pc = [w \in Instances |-> "idle"]
    /\ handle = [w \in Instances |-> "none"]
    /\ td = NoTeardown
    /\ wt = NoWait
    /\ st = NoStatus
    /\ bs = NoBootstrap

Init == InitWith({Absent, File(Dump(TwoClusters), 0), File(Dump(Foreign), 0)})

\* a document without its "users" key, as test_read_missing_required_field
\* writes one without required fields
MissingUsers == [k \in DOMAIN TwoClusters \ {"users"} |-> TwoClusters[k]]

\* a text that is not YAML
Malformed == <<Dump(TwoClusters)[1], Hole>>

\* the files the query helpers are called on: a good one, one lacking a
\* required field, one that does not parse, and an empty one (safe_load: None)
InitRead ==
    InitWith({File(Dump(TwoClusters), 0), File(Dump(MissingUsers), 0),
              File(Malformed, 0), File(<<>>, 0)})

InitIO == InitWith({Absent, File(Dump(TwoClusters), 0)})

-----------------------------------------------------------------------------
(* The store's operations, each one call *)

\* the effect of a call that ends in _write_config(config)
Persist(op, m, n, flag, final, config, fault) ==
    \E out \in WriteConfig(file, backups, config, fault, now) :
        /\ file' = out.file
        /\ backups' = out.backups
        /\ last' = Call(op, m, n, flag, final,
                        IF Serializable(config) THEN Dump(config) ELSE <<>>,
                        out.backed, out.ok, out.failedAt)
        /\ snaps' = [texts |-> IF out.ok /\ file.exists
                               THEN Append(snaps.texts, file.text)
                               ELSE snaps.texts,
                     faults |-> IF fault # "none" \/ ~ out.ok
                                THEN snaps.faults + 1 ELSE snaps.faults]

\* the effect of a call that raises before it writes
Raise(op, m, n, flag, failedAt) ==
    /\ last' = [Call(op, m, n, flag, None, <<>>, backups, FALSE, failedAt)
                    EXCEPT !.read_error = ReadError(file)]
    /\ UNCHANGED <<file, backups, snaps>>

AddCluster(m, cluster_name, cluster_config, set_current, fault) ==
    /\ ops < MaxOps
    /\ FaultApplies(file, backups, fault)
    /\ ops' = ops + 1
    /\ LET r == ReadConfig(file)
           final == FinalClusterName(r.config, cluster_name)
       IN  IF ~ r.ok
           THEN /\ Raise("add", m, cluster_name, set_current, "read")
                /\ UNCHANGED previous_context
           ELSE /\ previous_context' =
                       Remember(previous_context, m,
                                PreviousOnAdd(previous_context[m], r.config, set_current))
                /\ Persist("add", m, cluster_name, set_current, final,
                           WithCluster(r.config, final, cluster_config, set_current),
                           fault)
    /\ UNCHANGED <<tmp, now, pc, handle, td, wt, st, bs>>

RemoveCluster(m, cluster_name, restore_previous_context, fault) ==
    /\ ops < MaxOps
    /\ FaultApplies(file, backups, fault)
    /\ ops' = ops + 1
    /\ LET r == ReadConfig(file)
       IN  IF ~ r.ok
           THEN Raise("remove", m, cluster_name, restore_previous_context, "read")
           ELSE IF ~ ClusterFound(r.config, cluster_name)
           THEN Raise("remove", m, cluster_name, restore_previous_context, "not_found")
           ELSE Persist("remove", m, cluster_name, restore_previous_context, None,
                        WithoutCluster(r.config, cluster_name, restore_previous_context,
                                       previous_context[m]),
                        fault)
    /\ UNCHANGED <<tmp, now, previous_context, pc, handle, td, wt, st, bs>>

SetCurrentContext(m, context_name, fault) ==
    /\ ops < MaxOps
    /\ FaultApplies(file, backups, fault)
    /\ ops' = ops + 1
    /\ LET r == ReadConfig(file)
       IN  IF ~ r.ok
           THEN /\ Raise("set_current", m, context_name, FALSE, "read")
                /\ UNCHANGED previous_context
           ELSE /\ previous_context' =
                       Remember(previous_context, m, Get(r.config, "current-context"))
                /\ Persist("set_current", m, context_name, FALSE, None,
                           Put(r.config, "current-context", context_name), fault)
    /\ UNCHANGED <<tmp, now, pc, handle, td, wt, st, bs>>

\* the effect of a call of a query helper: nothing but the value it returns
Query(op, m, n, value) ==
    /\ ops' = ops + 1
    /\ last' = Returned(op, m, n, value, ReadError(file))
    /\ UNCHANGED <<file, tmp, backups, now, previous_context, snaps, pc, handle, td, wt,
                   st, bs>>

\* lines 412-423: "except Exception: return None"
GetCurrentContext(m) ==
    /\ ops < MaxOps
    /\ LET r == ReadConfig(file)
       IN  Query("get_current", m, None,
                 IF r.ok THEN Get(r.config, "current-context") ELSE None)

\* lines 458-469: "except Exception: return []"
ListClusters(m) ==
    /\ ops < MaxOps
    /\ LET r == ReadConfig(file)
       IN  Query("list", m, None,
                 IF r.ok THEN Names(GetList(r.config, "clusters")) ELSE <<>>)

\* lines 471-485: "except Exception: return False"
ClusterExists(m, cluster_name) ==
    /\ ops < MaxOps
    /\ LET r == ReadConfig(file)
       IN  Query("exists", m, cluster_name,
                 IF r.ok THEN ClusterFound(r.config, cluster_name) ELSE FALSE)

Tick ==
    /\ now < MaxTime
    /\ now' = now + 1
    /\ UNCHANGED <<file, tmp, backups, previous_context, last, snaps, ops, pc, handle,
                   td, wt, st, bs>>

-----------------------------------------------------------------------------
(* The callers' inputs *)

\* the names a caller removes: those registered, and one that is not
RemoveNames ==
    {GetList(ReadConfig(file).config, "clusters")[i].name :
        i \in DOMAIN GetList(ReadConfig(file).config, "clusters")} \cup {"ghost"}

\* at most MaxFaults calls of a run meet a failing step or an unserializable payload
FaultChoices == IF snaps.faults < MaxFaults THEN Faults ELSE {"none"}

PayloadChoices == IF snaps.faults < MaxFaults THEN {"p", Unserializable} ELSE {"p"}

Next ==
    \/ \E m \in Instances, n \in AddNames, sc \in BOOLEAN : AddCluster(m, n, "p", sc, "none")
    \/ \E m \in Instances, n \in RemoveNames, rp \in BOOLEAN : RemoveCluster(m, n, rp, "none")
    \/ \E m \in Instances, n \in ContextNames : SetCurrentContext(m, n, "none")

Spec == Init /\ [][Next]_vars

NextIO ==
    \/ \E c \in PayloadChoices, f \in FaultChoices : AddCluster(1, "demo", c, TRUE, f)
    \/ \E f \in FaultChoices : RemoveCluster(1, "demo", TRUE, f)
    \/ \E f \in FaultChoices : SetCurrentContext(1, "other", f)
    \/ Tick

SpecIO == InitIO /\ [][NextIO]_vars

NextRead ==
    \/ \E sc \in BOOLEAN : AddCluster(1, "demo", "p", sc, "none")
    \/ \E rp \in BOOLEAN : RemoveCluster(1, "demo", rp, "none")
    \/ SetCurrentContext(1, "other", "none")
    \/ \E m \in Instances : GetCurrentContext(m)
    \/ \E m \in Instances : ListClusters(m)
    \/ \E m \in Instances, n \in AddNames : ClusterExists(m, n)

SpecRead == InitRead /\ [][NextRead]_vars

-----------------------------------------------------------------------------
(* Properties of _write_config, checked under SpecIO *)

\* the step is a call of a mutator
IsCall == ops' = ops + 1

SameContent(f, g) == f.exists = g.exists /\ f.text = g.text

\* the call got as far as the rename
Renamed(call) == call.ok \/ call.failedAt = "chmod"

\* C1: a call that fails while serializing the candidate or while parsing the
\* temporary file back leaves the destination's content as it was, and absent
\* if it was absent.
C1_AtomicOnSerializeOrReparseFailure ==
    [][IsCall /\ last'.failedAt \in {"serialize", "reparse"}
          => SameContent(file', file)]_vars

C1_Witness ==
    /\ last.failedAt = "reparse"
    /\ file.exists
    /\ last.candidate # file.text

\* C2 as stated: a mutation that ends with an error of the write sequence, at
\* whichever step (backup, temp write, re-parse, rename, permissions), leaves
\* the destination's content as it was.
C2_UnmodifiedOnAnyWriteFailure ==
    [][IsCall /\ ~ last'.ok
          /\ last'.failedAt \in {"backup", "temp_write", "reparse", "rename", "chmod"}
          => SameContent(file', file)]_vars

\* C2 amended: a failure at the backup, temp write, re-parse or rename step
\* leaves the destination's content as it was; a failure at setting the
\* permissions, after the rename, leaves the complete candidate document.
C2_UnmodifiedUnlessRenamed ==
    [][IsCall /\ ~ last'.ok
          => /\ last'.failedAt \in {"backup", "temp_write", "reparse", "rename"}
                => SameContent(file', file)
             /\ last'.failedAt = "chmod"
                => file'.exists /\ file'.text = last'.candidate]_vars

C2_Witness ==
    /\ ~ last.ok
    /\ last.failedAt = "chmod"
    /\ last.op = "remove"
    /\ file.text = last.candidate

\* C4 as stated: with no backups at first, after k successful writes over an
\* existing destination exactly min(max_backups, k) backups exist, and they
\* are the snapshots of the most recent of those writes, however closely the
\* writes follow one another.  (Stated of the runs in which no step failed.)
C4_RetentionKeepsMostRecent ==
    LET k == Len(snaps.texts)
        kept == Min(max_backups, k)
    IN  snaps.faults = 0 =>
            /\ Cardinality(backups) = kept
            /\ {b.text : b \in backups} = {snaps.texts[i] : i \in (k - kept + 1)..k}

\* C5: a call that replaces an existing destination has, when its backup step
\* is over and before the destination is touched, a backup holding the
\* destination's content as it was; a call on a path with no file makes none.
C5_BackupBeforeOverwrite ==
    [][IsCall =>
          /\ file.exists /\ Renamed(last')
                => \E b \in last'.backed :
                      /\ b.name = Timestamp(now)
                      /\ b.text = file.text
          /\ ~ file.exists => last'.backed = backups]_vars

C5_Witness ==
    /\ last.ok
    /\ last.op = "set_current"
    /\ Cardinality(last.backed) = 2
    /\ \A b \in last.backed : b.text # file.text

-----------------------------------------------------------------------------
(* Properties of remove_cluster and add_cluster, checked under Spec *)

\* the document a reader finds in f
DocOf(f) == ReadConfig(f).config

Registered(f) == DocOf(f)["clusters"][Len(DocOf(f)["clusters"])].name

Removed == IsCall /\ last'.op = "remove" /\ last'.ok

Added == IsCall /\ last'.op = "add" /\ last'.ok

\* C6: a successful remove_cluster(name) deletes the cluster, context and user
\* entries named name and nothing else: the entries of other names stay as
\* they were, in the same order.
C6_CascadingRemoval ==
    [][Removed =>
          \A L \in {"clusters", "contexts", "users"} :
              DocOf(file')[L] =
                  SelectSeq(DocOf(file)[L], LAMBDA e : e.name # last'.name)]_vars

C6_Witness ==
    /\ last.op = "remove" /\ last.ok /\ last.name = "demo"
    /\ InSeq("dev", Names(DocOf(file)["contexts"]))
    /\ InSeq("demo-2", Names(DocOf(file)["clusters"]))
    /\ InSeq("admin", Names(DocOf(file)["users"]))

\* C7: when remove_cluster removes the current context, the current context
\* becomes the remembered one if restoring is asked for and the remembered
\* name is still a context, else the first remaining context, else null; when
\* the removed name is not the current context, the current context stays.
C7_ContextAfterRemoval ==
    [][Removed =>
          LET cur == Get(DocOf(file), "current-context")
              prev == previous_context[last'.m]
              rest == Names(DocOf(file')["contexts"])
              new == Get(DocOf(file'), "current-context")
          IN  IF cur = last'.name
              THEN IF last'.flag /\ prev # None /\ InSeq(prev, rest)
                   THEN new = prev
                   ELSE IF rest # <<>> THEN new = rest[1]
                   ELSE new = None
              ELSE new = cur]_vars

C7_Witness ==
    /\ last.op = "remove" /\ last.ok /\ last.flag
    /\ Get(DocOf(file), "current-context") = previous_context[last.m]
    /\ DocOf(file)["contexts"] # <<>>
    /\ DocOf(file)["contexts"][1].name # previous_context[last.m]

\* C8: add_cluster(name) registers the entry under name when no cluster has
\* that name, and otherwise under name-k for the smallest k >= 2 such that
\* name-k is no cluster's name; the registered name is never the name of a
\* cluster that was there before the call.
C8_ResolvedName ==
    [][Added =>
          LET before == Names(DocOf(file)["clusters"])
              reg == Registered(file')
          IN  /\ Len(DocOf(file')["clusters"]) = Len(before) + 1
              /\ ~ InSeq(reg, before)
              /\ IF ~ InSeq(last'.name, before)
                 THEN reg = last'.name
                 ELSE \E k \in 2..(Len(before) + 2) :
                         /\ reg = Suffixed(last'.name, k)
                         /\ \A j \in 2..(k - 1) : InSeq(Suffixed(last'.name, j), before)]_vars

C8_Witness ==
    /\ last.op = "add" /\ last.ok /\ last.name = "demo"
    /\ Registered(file) = "demo-3"

\* C9 as stated: add_cluster returns to its caller the name under which the
\* entry was registered.
C9_ReturnsRegisteredName ==
    last.op = "add" /\ last.ok => last.ret = Registered(file)

\* C10: after a successful add_cluster with set_current=True the current
\* context is the registered name and the manager remembers the current
\* context the document had just before the call, whatever it remembered.
C10_CurrentAndPreviousOnAdd ==
    [][Added /\ last'.flag =>
          /\ Get(DocOf(file'), "current-context") = Registered(file')
          /\ previous_context'[last'.m] = Get(DocOf(file), "current-context")]_vars

C10_Witness ==
    /\ last.op = "add" /\ last.ok /\ last.flag
    /\ previous_context[last.m] = "demo-2"
    /\ Get(DocOf(file), "current-context") = "other-2"

\* C11: a successful add_cluster appends one cluster entry, one context entry
\* and one user entry with an empty payload, all under the registered name,
\* after the entries that were there, which stay as they were and in their
\* order; with set_current=False the current context and what each manager
\* remembers stay as they were.
C11_AppendsAndPreserves ==
    [][Added =>
          LET reg == Registered(file')
          IN  /\ Len(DocOf(file')["clusters"]) = Len(DocOf(file)["clusters"]) + 1
              /\ SubSeq(DocOf(file')["clusters"], 1, Len(DocOf(file)["clusters"]))
                    = DocOf(file)["clusters"]
              /\ DocOf(file')["contexts"]
                    = Append(DocOf(file)["contexts"], ContextEntry(reg))
              /\ DocOf(file')["users"]
                    = Append(DocOf(file)["users"], UserEntry(reg))
              /\ ~ last'.flag
                    => /\ Get(DocOf(file'), "current-context")
                             = Get(DocOf(file), "current-context")
                       /\ previous_context' = previous_context]_vars

C11_Witness ==
    /\ last.op = "add" /\ last.ok /\ ~ last.flag
    /\ Len(DocOf(file)["contexts"]) >= 4
    /\ DocOf(file)["contexts"][1].name = "dev"
    /\ previous_context[last.m] # None
    /\ Get(DocOf(file), "current-context") # Registered(file)

\* C12: remove_cluster(name) on a readable document with no cluster named
\* name fails with the not-found error and writes nothing: the file (absent
\* if it was absent), the backups and what each manager remembers are as
\* they were before the call.
C12_NotFoundWritesNothing ==
    [][IsCall /\ last'.op = "remove" /\ ReadConfig(file).ok
          /\ ~ InSeq(last'.name, Names(DocOf(file)["clusters"]))
          => /\ ~ last'.ok
             /\ last'.failedAt = "not_found"
             /\ file' = file
             /\ backups' = backups
             /\ previous_context' = previous_context]_vars

C12_Witness ==
    /\ last.op = "remove" /\ last.failedAt = "not_found" /\ last.name = "ghost"
    /\ backups # {}
    /\ \E m \in Instances : previous_context[m] # None

\* C13 as stated: every operation of the store (add_cluster, remove_cluster,
\* set_current_context, get_current_context, list_clusters, cluster_exists)
\* called on a file that exists but does not parse or lacks a required field
\* ends with the error of the read instead of returning a value, and leaves
\* the file as it was.
C13_CorruptFileFailsEveryOperation ==
    [][IsCall /\ file.exists /\ ~ ReadConfig(file).ok
          => /\ ~ last'.ok
             /\ last'.failedAt = "read"
             /\ file' = file]_vars

\* C14 as stated: the error that reading a corrupt file raises carries the
\* hint to restore from a backup, when the content is malformed and when a
\* required field is missing alike.
C14_CorruptionHintsInBothCases ==
    last.read_error # NoError
        => InSeq("Restore from backup in ~/.kube/backups/", last.read_error.suggestions)

\* C15: what a manager remembers is its own: no manager remembers anything
\* before the first call; a call changes only the memory of the manager it
\* is made through, and only add_cluster and set_current_context do; and the
\* context a restoring remove_cluster selects is the one its own manager
\* remembers if that is still a context, else the first remaining or null,
\* whatever the other managers remember.
C15_MemoryPerInstance ==
    [][/\ ops = 0 => \A m \in Instances : previous_context[m] = None
       /\ \A m \in Instances :
             previous_context'[m] # previous_context[m]
                => IsCall /\ last'.m = m /\ last'.op \in {"add", "set_current"}
       /\ Removed /\ last'.flag
             /\ Get(DocOf(file), "current-context") = last'.name
             => LET own == previous_context[last'.m]
                    rest == Names(DocOf(file')["contexts"])
                    new == Get(DocOf(file'), "current-context")
                IN  IF own # None /\ InSeq(own, rest) THEN new = own
                    ELSE IF rest # <<>> THEN new = rest[1]
                    ELSE new = None]_vars

C15_Witness ==
    /\ last.op = "remove" /\ last.ok /\ last.flag
    /\ Get(DocOf(file), "current-context") = previous_context[last.m]
    /\ \E m \in Instances :
          /\ m # last.m
          /\ previous_context[m] \notin {None, previous_context[last.m]}
          /\ InSeq(previous_context[m], Names(DocOf(file)["contexts"]))
          /\ DocOf(file)["contexts"][1].name = previous_context[m]

-----------------------------------------------------------------------------
(* Two managers in _write_config on the same path, one step at a time.     *)
(* Both use the temporary name config.tmp.  An open file is followed       *)
(* through renames and unlinks: handle[w] is the name the file that w has  *)
(* open for writing now goes by ("orphan": by no name any more).           *)

Writers == Instances

Original == File(Dump(TwoClusters), 0)

\* the document writer w was handed
Candidate(w) == WithCluster(TwoClusters, IF w = 1 THEN "one" ELSE "two", "p", TRUE)

InitConc ==
    /\ file = Original
    /\ tmp = Absent
    /\ backups = {}
    /\ now = 0
    /\ previous_context = [m \in Instances |-> None]
    /\ last = NoCall
    /\ snaps = [texts |-> <<>>, faults |-> 0]
    /\ ops = 0
    /\ pc = [w \in Writers |-> "backup"]
    /\ handle = [w \in Writers |-> "none"]
    /\ td = NoTeardown
    /\ wt = NoWait
    /\ st = NoStatus
    /\ bs = NoBootstrap

Idle == <<previous_context, last, snaps, ops, td, wt, st, bs>>

\* lines cand[from..] written at their offsets into a file holding text; what
\* lies between the end of the file and the offset reads back as NUL bytes
WriteAt(text, from, cand) ==
    [i \in 1..(IF Len(text) > Len(cand) THEN Len(text) ELSE Len(cand)) |->
        IF i >= from /\ i <= Len(cand) THEN cand[i]
        ELSE IF i <= Len(text) THEN text[i]
        ELSE Hole]

\* yaml_content reaches the file in two parts: the buffer's first flush and close
FirstPart(cand) == SubSeq(cand, 1, Len(cand) \div 2)

\* lines cand[from..] written through w's open file
WriteThrough(w, from, cand) ==
    /\ tmp' = IF handle[w] = "tmp"
              THEN [tmp EXCEPT !.text = WriteAt(@, from, cand), !.mtime = now]
              ELSE tmp
    /\ file' = IF handle[w] = "dest"
               THEN [file EXCEPT !.text = WriteAt(@, from, cand), !.mtime = now]
               ELSE file

\* lines 143-144
W_Backup(w) ==
    /\ pc[w] = "backup"
    /\ backups' = BackupStep(file, backups, now)
    /\ pc' = [pc EXCEPT ![w] = "open"]
    /\ UNCHANGED <<file, tmp, now, handle, Idle>>

\* line 153, open(temp_path, "w"): creates the file, or truncates the one there
W_OpenTemp(w) ==
    /\ pc[w] = "open"
    /\ tmp' = File(<<>>, now)
    /\ handle' = [handle EXCEPT ![w] = "tmp"]
    /\ pc' = [pc EXCEPT ![w] = "write"]
    /\ UNCHANGED <<file, backups, now, Idle>>

\* line 154, f.write(yaml_content): the part the buffer flushes before close
W_Flush(w) ==
    /\ pc[w] = "write"
    /\ WriteThrough(w, 1, FirstPart(Dump(Candidate(w))))
    /\ pc' = [pc EXCEPT ![w] = "flushed"]
    /\ UNCHANGED <<backups, now, handle, Idle>>

\* line 154, leaving the with block: the rest is flushed and the file closed
W_Close(w) ==
    /\ pc[w] \in {"write", "flushed"}
    /\ WriteThrough(w,
                    IF pc[w] = "write" THEN 1 ELSE Len(FirstPart(Dump(Candidate(w)))) + 1,
                    Dump(Candidate(w)))
    /\ handle' = [handle EXCEPT ![w] = "none"]
    /\ pc' = [pc EXCEPT ![w] = "reparse"]
    /\ UNCHANGED <<backups, now, Idle>>

\* lines 157-158: raises when config.tmp is gone or does not parse
W_Reparse(w) ==
    /\ pc[w] = "reparse"
    /\ pc' = [pc EXCEPT ![w] = IF tmp.exists /\ Parses(tmp.text)
                               THEN "rename" ELSE "raise"]
    /\ UNCHANGED <<file, tmp, backups, now, handle, Idle>>

\* line 161, temp_path.replace(config_path): raises when config.tmp is gone
W_Rename(w) ==
    /\ pc[w] = "rename"
    /\ IF tmp.exists
       THEN /\ file' = tmp
            /\ tmp' = Absent
            /\ handle' = [v \in Writers |->
                            IF handle[v] = "tmp" THEN "dest"
                            ELSE IF handle[v] = "dest" THEN "orphan"
                            ELSE handle[v]]
            /\ pc' = [pc EXCEPT ![w] = "cleanup"]
       ELSE /\ pc' = [pc EXCEPT ![w] = "raise"]
            /\ UNCHANGED <<file, tmp, handle>>
    /\ UNCHANGED <<backups, now, Idle>>

\* lines 164-167: chmod and _cleanup_old_backups
W_Cleanup(w) ==
    /\ pc[w] = "cleanup"
    /\ backups' \in KeepChoices(backups)
    /\ pc' = [pc EXCEPT ![w] = "return"]
    /\ UNCHANGED <<file, tmp, now, handle, Idle>>

\* lines 178-181, the finally block, on the way out of either path
W_Finally(w) ==
    /\ pc[w] \in {"return", "raise"}
    /\ tmp' = Absent
    /\ handle' = [v \in Writers |-> IF handle[v] = "tmp" THEN "orphan" ELSE handle[v]]
    /\ pc' = [pc EXCEPT ![w] = IF pc[w] = "return" THEN "done" ELSE "failed"]
    /\ UNCHANGED <<file, backups, now, Idle>>

NextConc ==
    \/ \E w \in Writers : W_Backup(w)
    \/ \E w \in Writers : W_OpenTemp(w)
    \/ \E w \in Writers : W_Flush(w)
    \/ \E w \in Writers : W_Close(w)
    \/ \E w \in Writers : W_Reparse(w)
    \/ \E w \in Writers : W_Rename(w)
    \/ \E w \in Writers : W_Cleanup(w)
    \/ \E w \in Writers : W_Finally(w)
    \/ Tick

SpecConc == InitConc /\ [][NextConc]_vars

\* C3 as stated: under every interleaving of two concurrent _write_config
\* calls on one path the destination holds, at every point, its original
\* content or the complete candidate of one of the writers, and once both
\* calls are over it holds the complete candidate of one of them.
C3_NeverTorn ==
    /\ file.exists
    /\ file.text \in {Original.text} \cup {Dump(Candidate(w)) : w \in Writers}
    /\ (\A w \in Writers : pc[w] \in {"done", "failed"})
          => file.text \in {Dump(Candidate(w)) : w \in Writers}

-----------------------------------------------------------------------------
(* Resilient teardown: the "crossplane uninstall" command with              *)
(* CrossplaneInstaller.uninstall_crossplane, and                            *)
(* BootstrapManager.delete_cluster.  Each try block is one step; e is the   *)
(* message of the exception the step raises, None when it raises none.      *)
(* td.attempted and td.failed record which steps ran and which raised.      *)

CLUSTER_NAME == "mk8-bootstrap"

\* delete_cluster, line 182: f"kind-{CLUSTER_NAME}"
BootstrapContext == "kind-" \o CLUSTER_NAME

\* the labels of errors.append(f"<label>: {e}") in uninstall_crossplane
UninstallSteps ==
    <<"ProviderConfig deletion", "Provider deletion", "Helm uninstall",
      "Namespace deletion">>

\* the texts of output.warning(f"<text>: {e}") in uninstall_crossplane
UninstallWarnings ==
    <<"Failed to delete ProviderConfig", "Failed to delete Provider",
      "Failed to uninstall Helm release", "Failed to delete namespace">>

\* the labels of cleaned_up.append(...) in delete_cluster
DeleteSteps == <<"kind cluster", "kubeconfig context">>

\* the labels of errors.append(f"<label>: {e}") in delete_cluster
DeleteErrors == <<"Failed to delete kind cluster", "Failed to clean up kubeconfig">>

Steps(proc) ==
    IF proc = "uninstall" THEN UninstallSteps
    ELSE IF proc = "delete" THEN DeleteSteps
    ELSE <<>>

ErrorLabel(proc, i) == IF proc = "uninstall" THEN UninstallSteps[i] ELSE DeleteErrors[i]

\* delete_cluster warns with errors[-1], uninstall_crossplane with a text of its own
WarningLabel(proc, i) == IF proc = "uninstall" THEN UninstallWarnings[i] ELSE DeleteErrors[i]

\* the messages of the exceptions the external commands raise
StepErrors == {"timed out", "forbidden"}

StepOutcomes == {None} \cup StepErrors

\* str(KubeconfigError) of a failed _write_config, lines 169-171
WriteFailed == "Failed to write kubeconfig file"

Emit(out, level, text) == Append(out, <<level, text>>)

RECURSIVE EmitAll(_, _, _, _)
EmitAll(out, level, prefix, texts) ==
    IF texts = <<>> THEN out
    ELSE EmitAll(Emit(out, level, prefix \o Head(texts)), level, prefix, Tail(texts))

RECURSIVE Join(_, _)
Join(texts, sep) ==
    IF texts = <<>> THEN ""
    ELSE IF Len(texts) = 1 THEN texts[1]
    ELSE texts[1] \o sep \o Join(Tail(texts), sep)

\* a teardown that gives up at the first step that fails
NextStep_AbortOnFailure(steps, i, e) ==
    IF e # None THEN "summary"
    ELSE IF i < Len(steps) THEN steps[i + 1]
    ELSE "summary"

\* control leaves every try/except block at its end, exception or not, and
\* goes on to the next block
NextStep(steps, i, e) ==
    IF i < Len(steps) THEN steps[i + 1] ELSE "summary"

\* a list that holds the latest failure alone
Recorded_LatestOnly(errors, label, e) ==
    IF e = None THEN errors ELSE <<label \o ": " \o e>>

\* except Exception as e: errors.append(f"<label>: {e}")
Recorded(errors, label, e) ==
    IF e = None THEN errors ELSE Append(errors, label \o ": " \o e)

\* one try block of teardown t: step i runs and raises e or nothing; removed
\* says whether delete_cluster adds the step to cleaned_up
Attempt(t, i, e, removed) ==
    [t EXCEPT
        !.attempted = Append(@, Steps(t.proc)[i]),
        !.failed = IF e = None THEN @ ELSE Append(@, <<i, e>>),
        !.errors = Recorded(@, ErrorLabel(t.proc, i), e),
        !.cleaned_up = IF removed THEN Append(@, Steps(t.proc)[i]) ELSE @,
        !.out = IF e = None THEN @
                ELSE Emit(@, "warning", WarningLabel(t.proc, i) \o ": " \o e),
        !.pc = NextStep(Steps(t.proc), i, e)]

KubeconfigIdle == <<file, tmp, backups, now, previous_context, last, snaps, ops>>

\* cli/commands/crossplane.py lines 142-155 and uninstall_crossplane line 216
UninstallCommand(yes, confirmed) ==
    /\ td.proc = "none"
    /\ LET asked == IF yes THEN td.out
                    ELSE Emit(Emit(td.out, "warning",
                                   "This will remove Crossplane and all AWS provider resources."),
                              "warning", "This operation cannot be undone.")
       IN  td' = IF ~ yes /\ ~ confirmed
                 THEN [td EXCEPT !.proc = "uninstall", !.pc = "cancelled",
                                 !.out = Emit(asked, "info", "Uninstall cancelled"),
                                 !.exit = "SUCCESS"]
                 ELSE [td EXCEPT !.proc = "uninstall", !.pc = UninstallSteps[1],
                                 !.out = Emit(asked, "info", "Uninstalling Crossplane...")]
    /\ UNCHANGED <<KubeconfigIdle, pc, handle, wt, st, bs>>

\* uninstall_crossplane, lines 219-229
DeleteProviderConfig(e) ==
    /\ td.proc = "uninstall" /\ td.pc = UninstallSteps[1]
    /\ td' = Attempt(td, 1, e, FALSE)
    /\ UNCHANGED <<KubeconfigIdle, pc, handle, wt, st, bs>>

\* uninstall_crossplane, lines 231-241
DeleteProvider(e) ==
    /\ td.proc = "uninstall" /\ td.pc = UninstallSteps[2]
    /\ td' = Attempt(td, 2, e, FALSE)
    /\ UNCHANGED <<KubeconfigIdle, pc, handle, wt, st, bs>>

\* uninstall_crossplane, lines 243-251
UninstallHelmRelease(e) ==
    /\ td.proc = "uninstall" /\ td.pc = UninstallSteps[3]
    /\ td' = Attempt(td, 3, e, FALSE)
    /\ UNCHANGED <<KubeconfigIdle, pc, handle, wt, st, bs>>

\* uninstall_crossplane, lines 253-259
DeleteNamespace(e) ==
    /\ td.proc = "uninstall" /\ td.pc = UninstallSteps[4]
    /\ td' = Attempt(td, 4, e, FALSE)
    /\ UNCHANGED <<KubeconfigIdle, pc, handle, wt, st, bs>>

CompletedWith(n) == "Uninstallation completed with " \o ToString(n) \o " error(s)"

\* uninstall_crossplane, lines 261-264
UninstallSummary ==
    /\ td.proc = "uninstall" /\ td.pc = "summary"
    /\ td' = [td EXCEPT
                !.out = IF td.errors # <<>>
                        THEN Emit(@, "warning", CompletedWith(Len(td.errors)))
                        ELSE Emit(@, "success", "Crossplane uninstalled successfully"),
                !.pc = "command"]
    /\ UNCHANGED <<KubeconfigIdle, pc, handle, wt, st, bs>>

\* cli/commands/crossplane.py lines 155-159: the call has returned (the check
\* mark of the message is left out)
UninstallExit ==
    /\ td.proc = "uninstall" /\ td.pc = "command"
    /\ td' = [td EXCEPT
                !.out = Emit(@, "success", "\\nCrossplane uninstalled successfully"),
                !.exit = "SUCCESS",
                !.pc = "done"]
    /\ UNCHANGED <<KubeconfigIdle, pc, handle, wt, st, bs>>

\* delete_cluster, lines 153-167
DeleteCheck(exists, skip_confirmation, confirmed) ==
    /\ td.proc = "none"
    /\ td' = IF ~ exists
             THEN [td EXCEPT !.proc = "delete", !.pc = "cancelled",
                             !.out = Emit(@, "info", "No bootstrap cluster found")]
             ELSE IF ~ skip_confirmation /\ ~ confirmed
             THEN [td EXCEPT !.proc = "delete", !.pc = "cancelled",
                             !.out = Emit(@, "info", "Deletion cancelled")]
             ELSE [td EXCEPT !.proc = "delete", !.pc = DeleteSteps[1],
                             !.out = Emit(@, "info",
                                          "Deleting bootstrap cluster '" \o CLUSTER_NAME \o "'...")]
    /\ UNCHANGED <<KubeconfigIdle, pc, handle, wt, st, bs>>

\* delete_cluster, lines 173-178
DeleteKindCluster(e) ==
    /\ td.proc = "delete" /\ td.pc = DeleteSteps[1]
    /\ td' = Attempt(td, 1, e, e = None)
    /\ UNCHANGED <<KubeconfigIdle, pc, handle, wt, st, bs>>

\* delete_cluster, lines 180-191: cluster_exists, then remove_cluster through
\* the manager's own KubeconfigManager
CleanUpKubeconfig(fault) ==
    /\ td.proc = "delete" /\ td.pc = DeleteSteps[2]
    /\ FaultApplies(file, backups, fault)
    /\ LET r == ReadConfig(file)
       IN  IF ~ (r.ok /\ ClusterFound(r.config, BootstrapContext))
           THEN /\ fault = "none"
                /\ ops' = ops + 1
                /\ last' = Returned("exists", 1, BootstrapContext, FALSE, ReadError(file))
                /\ td' = Attempt(td, 2, None, FALSE)
                /\ UNCHANGED <<file, backups, snaps>>
           ELSE /\ ops' = ops + 2
                /\ Persist("remove", 1, BootstrapContext, TRUE, None,
                           WithoutCluster(r.config, BootstrapContext, TRUE,
                                          previous_context[1]),
                           fault)
                /\ td' = Attempt(td, 2, IF last'.ok THEN None ELSE WriteFailed, last'.ok)
    /\ UNCHANGED <<tmp, now, previous_context, pc, handle, wt, st, bs>>

\* delete_cluster, lines 193-201 (the check mark and the bullets are left out)
DeleteSummary ==
    /\ td.proc = "delete" /\ td.pc = "summary"
    /\ LET told == IF td.cleaned_up # <<>>
                   THEN Emit(Emit(td.out, "success", "Cleanup complete"),
                             "info", "  Removed: " \o Join(td.cleaned_up, ", "))
                   ELSE td.out
       IN  td' = [td EXCEPT
                    !.out = IF td.errors # <<>>
                            THEN EmitAll(Emit(told, "warning", "\\nSome cleanup steps failed:"),
                                         "warning", "  ", td.errors)
                            ELSE told,
                    !.pc = "done"]
    /\ UNCHANGED <<KubeconfigIdle, pc, handle, wt, st, bs>>

\* a kubeconfig in which create_cluster registered the bootstrap cluster
Bootstrap ==
    Doc(<<ClusterEntry("other", "q"), ClusterEntry(BootstrapContext, "p")>>,
        <<ContextEntry("other"), ContextEntry(BootstrapContext)>>,
        <<UserEntry("other"), UserEntry(BootstrapContext)>>, BootstrapContext)

InitTeardown == InitWith({Absent, File(Dump(Bootstrap), 0), File(Malformed, 0)})

\* the steps of remove_cluster's write that fail in a teardown
TeardownFaults == {"none", "rename"}

NextTeardown ==
    \/ \E yes \in BOOLEAN, confirmed \in BOOLEAN : UninstallCommand(yes, confirmed)
    \/ \E e \in StepOutcomes : DeleteProviderConfig(e)
    \/ \E e \in StepOutcomes : DeleteProvider(e)
    \/ \E e \in StepOutcomes : UninstallHelmRelease(e)
    \/ \E e \in StepOutcomes : DeleteNamespace(e)
    \/ UninstallSummary
    \/ UninstallExit
    \/ \E exists \in BOOLEAN, skip \in BOOLEAN, confirmed \in BOOLEAN :
          DeleteCheck(exists, skip, confirmed)
    \/ \E e \in StepOutcomes : DeleteKindCluster(e)
    \/ \E fault \in TeardownFaults : CleanUpKubeconfig(fault)
    \/ DeleteSummary

SpecTeardown == InitTeardown /\ [][NextTeardown]_vars

IsPrefix(s, t) == Len(s) <= Len(t) /\ s = SubSeq(t, 1, Len(s))

\* the teardown has left its last try block
PastSteps == td.pc \in {"summary", "command", "done"}

\* C16: a teardown attempts its steps in their fixed order, each once,
\* whichever of them failed: the steps attempted so far are always the first
\* ones of the list, the step about to run is the next of the list, and a
\* teardown past its try blocks has attempted all of them.
C16_EveryStepOnceInOrder ==
    /\ IsPrefix(td.attempted, Steps(td.proc))
    /\ \A i \in DOMAIN Steps(td.proc) :
          td.pc = Steps(td.proc)[i] => Len(td.attempted) = i - 1
    /\ PastSteps => td.attempted = Steps(td.proc)

C16_Witness ==
    /\ td.proc = "uninstall" /\ td.pc = "done"
    /\ Len(td.failed) = 3
    /\ td.failed[1][1] = 1
    /\ td.attempted = UninstallSteps

C18_SuccessIffNoStepFailed ==
    td.pc = "done" =>
        LET N == Len(td.failed)
            successes == {i \in DOMAIN td.out : td.out[i][1] = "success"}
        IN  /\ N = 0 => successes # {}
            /\ N >= 1 =>
                  /\ successes = {}
                  /\ \E i \in DOMAIN td.out :
                        /\ td.out[i][1] = "warning"
                        /\ td.out[i][2] \in {CompletedWith(N),
                                             "\\nSome cleanup steps failed:"}

-----------------------------------------------------------------------------
(* Readiness waits: KindClient.wait_for_ready and CrossplaneInstaller's     *)
(* _wait_for_crossplane_ready, _wait_for_provider_ready and                 *)
(* _wait_for_provider_config_ready.  One loop test, one probe or one sleep  *)
(* is a step; wt.clock is time.time(), in seconds.  wt.began, wt.probes,    *)
(* wt.sleeps, wt.slept and wt.busy record when the wait was entered, how    *)
(* often it probed and slept, and how long the sleeps and probes took.      *)

MaxTimeout == 12
MaxProbe == 3
MaxNodes == 2
MaxPods == 2

Waits ==
    {"wait_for_ready", "_wait_for_crossplane_ready", "_wait_for_provider_ready",
     "_wait_for_provider_config_ready"}

\* the argument of time.sleep in each loop
Interval(wait) == IF wait = "_wait_for_provider_ready" THEN 10 ELSE 5

Timeouts == 0..MaxTimeout

\* how long a probe takes: no time, or MaxProbe seconds
ProbeDurations == {0, MaxProbe}

SeqsUpTo(S, n) == UNION {[1..k -> S] : k \in 0..n}

\* what the probe of each wait can find
Observations(wait) ==
    {[NoObservation EXCEPT !.raises = TRUE]} \cup
    CASE wait = "wait_for_ready" ->
            {[NoObservation EXCEPT !.returncode = 1]} \cup
            {[NoObservation EXCEPT !.nodes = n] :
                n \in SeqsUpTo({"Ready", "NotReady"}, MaxNodes)}
      [] wait = "_wait_for_crossplane_ready" ->
            {[NoObservation EXCEPT !.pods = p] : p \in SeqsUpTo(BOOLEAN, MaxPods)}
      [] wait = "_wait_for_provider_ready" ->
            {NoObservation} \cup
            {[NoObservation EXCEPT !.exists = TRUE, !.conditions = c] :
                c \in {<<>>, <<"True">>, <<"False">>}}
      [] OTHER ->
            {NoObservation, [NoObservation EXCEPT !.exists = TRUE]}

\* the text of a STATUS cell, character by character
Characters(status) ==
    CASE status = "Ready" -> <<"R", "e", "a", "d", "y">>
      [] status = "NotReady" -> <<"N", "o", "t", "R", "e", "a", "d", "y">>
      [] status = "STATUS" -> <<"S", "T", "A", "T", "U", "S">>
      [] OTHER -> <<>>

RECURSIVE Rows(_)
Rows(nodes) ==
    IF nodes = <<>> THEN <<>>
    ELSE <<"n", " ">> \o Characters(Head(nodes)) \o <<"\n">> \o Rows(Tail(nodes))

\* result.stdout of "kubectl get nodes": the heading and one row for each
\* node; nothing when the command fails or finds no node
Stdout(obs) ==
    IF obs.returncode # 0 \/ obs.nodes = <<>> THEN <<>>
    ELSE Characters("STATUS") \o <<"\n">> \o Rows(obs.nodes)

\* Python's "needle in text"
Contains(text, needle) ==
    \E i \in 0..(Len(text) - Len(needle)) :
        SubSeq(text, i + 1, i + Len(needle)) = needle

\* wait_for_ready, line 380: result.returncode == 0 and "Ready" in result.stdout
NodesReady(obs) ==
    obs.returncode = 0 /\ Contains(Stdout(obs), Characters("Ready"))

\* _wait_for_crossplane_ready, line 414: pods and all(p.get("ready") for p in pods)
PodsReady(obs) == obs.pods # <<>> /\ \A i \in DOMAIN obs.pods : obs.pods[i]

\* what each probe makes of what it finds
Verdict(wait, obs) ==
    IF obs.raises THEN "raises"
    ELSE IF CASE wait = "wait_for_ready" -> NodesReady(obs)
              [] wait = "_wait_for_crossplane_ready" -> PodsReady(obs)
              [] wait = "_wait_for_provider_ready" ->
                    obs.exists /\ obs.conditions # <<>> /\ obs.conditions[1] = "True"
              [] OTHER -> obs.exists
    THEN "ready"
    ELSE "not_ready"

\* the error each loop raises when it is left: the message, piece by piece
\* as the f-string puts it together, and the suggestions
TimeoutError(wait, timeout) ==
    CASE wait = "wait_for_ready" ->
            Error("KindError",
                  <<"Cluster did not become ready within ", ToString(timeout), " seconds">>,
                  <<"Check Docker daemon status", "Check system resources (memory, disk)",
                    "View cluster logs: kind export logs">>)
      [] wait = "_wait_for_crossplane_ready" ->
            Error("CommandError", <<"Timeout waiting for Crossplane pods to be ready">>, <<>>)
      [] wait = "_wait_for_provider_ready" ->
            Error("CommandError", <<"Timeout waiting for AWS provider to be ready">>, <<>>)
      [] OTHER ->
            Error("CommandError", <<"Timeout waiting for ProviderConfig to be ready">>, <<>>)

\* time.time() on entry
StartClocks == {0, 7}

\* a loop that goes on while the elapsed time has not passed the timeout
Expired_Strict(clock, start_time, timeout) == clock - start_time > timeout

\* while time.time() - start_time < timeout: ... ; raise
Expired(clock, start_time, timeout) == ~ (clock - start_time < timeout)

\* a loop that sleeps after every probe
AfterProbe_AlwaysSleep(wait, outcome) == "sleep"

\* a ready probe returns; wait_for_ready swallows what its probe raises
\* (except Exception: pass), the installer's loops let it through
AfterProbe(wait, outcome) ==
    IF outcome = "ready" THEN "returned"
    ELSE IF outcome = "raises" /\ wait # "wait_for_ready" THEN "raised"
    ELSE "sleep"

WaitIdle ==
    <<file, tmp, backups, now, previous_context, last, snaps, ops, pc, handle, td, st, bs>>

\* start_time = time.time()
WaitBegin(wait, timeout, t0) ==
    /\ wt.pc = "idle"
    /\ wt' = [wt EXCEPT !.wait = wait, !.timeout = timeout, !.clock = t0,
                        !.start_time = t0, !.began = t0, !.pc = "test"]
    /\ UNCHANGED WaitIdle

\* the while condition; leaving the loop raises the timeout error
LoopTest ==
    /\ wt.pc = "test"
    /\ wt' = IF Expired(wt.clock, wt.start_time, wt.timeout)
             THEN [wt EXCEPT !.pc = "timed_out",
                             !.error = TimeoutError(wt.wait, wt.timeout)]
             ELSE [wt EXCEPT !.pc = "probe"]
    /\ UNCHANGED WaitIdle

\* one evaluation of the probe, which finds obs and takes d seconds
Probe(obs, d) ==
    /\ wt.pc = "probe"
    /\ obs \in Observations(wt.wait)
    /\ wt' = [wt EXCEPT !.clock = @ + d, !.busy = @ + d, !.probes = @ + 1,
                        !.obs = obs,
                        !.ready = (Verdict(wt.wait, obs) = "ready"),
                        !.pc = AfterProbe(wt.wait, Verdict(wt.wait, obs)),
                        !.error = IF AfterProbe(wt.wait, Verdict(wt.wait, obs)) = "raised"
                                  THEN Error("Exception", <<"probe failed">>, <<>>)
                                  ELSE @]
    /\ UNCHANGED WaitIdle

\* time.sleep(5), time.sleep(10)
Sleep ==
    /\ wt.pc = "sleep"
    /\ wt' = [wt EXCEPT !.clock = @ + Interval(wt.wait),
                        !.slept = @ + Interval(wt.wait),
                        !.sleeps = @ + 1, !.pc = "test"]
    /\ UNCHANGED WaitIdle

InitWait == InitWith({Absent})

NextWait ==
    \/ \E w \in Waits, t \in Timeouts, t0 \in StartClocks : WaitBegin(w, t, t0)
    \/ LoopTest
    \/ \E o \in UNION {Observations(w) : w \in Waits}, d \in ProbeDurations : Probe(o, d)
    \/ Sleep

SpecWait == InitWait /\ [][NextWait]_vars

\* C19: a wait that ends with the timeout error ends no earlier than timeout
\* seconds after it began; the time the elapsed time is measured from is the
\* time of entry throughout the wait; and when the probes took no time the
\* error comes less than one sleep interval after the deadline.
C19_TimeoutNotEarlyDeadlineFixed ==
    /\ wt.pc # "idle" => wt.start_time = wt.began
    /\ wt.pc = "timed_out" =>
          /\ wt.clock - wt.began >= wt.timeout
          /\ wt.busy = 0 => wt.clock - wt.began < wt.timeout + Interval(wt.wait)

C19_Witness ==
    /\ wt.pc = "timed_out" /\ wt.busy = 0 /\ ~ wt.ready
    /\ wt.began = 7 /\ wt.timeout = 10 /\ wt.clock = 17
    /\ wt.probes = 2 /\ wt.wait = "wait_for_ready"

\* C20: a wait returns straight after a probe that reports ready, with no
\* sleep after it; it sleeps once, for one interval, after each probe that
\* does not, and before the next probe: a wait that has returned after n
\* probes has slept n - 1 times, the n-th probe being the first ready one.
C20_ReturnsAtOnceSleepsBetween ==
    /\ wt.pc = "returned" => wt.ready /\ wt.sleeps = wt.probes - 1
    /\ wt.pc = "sleep" => ~ wt.ready /\ wt.sleeps = wt.probes - 1
    /\ wt.pc \in {"test", "probe", "timed_out"} => ~ wt.ready /\ wt.sleeps = wt.probes
    /\ wt.pc # "idle" =>
          /\ wt.slept = wt.sleeps * Interval(wt.wait)
          /\ wt.clock = wt.began + wt.busy + wt.slept

C20_Witness ==
    /\ wt.pc = "returned" /\ wt.ready
    /\ wt.probes = 3 /\ wt.sleeps = 2
    /\ wt.clock = wt.began + 2 * Interval(wt.wait)

\* the diagnostic of what a probe found: how many of the nodes, pods or
\* conditions it saw were ready
Diagnostic(obs) ==
    LET seen == Len(obs.nodes) + Len(obs.pods) + Len(obs.conditions)
        good == Cardinality({i \in DOMAIN obs.nodes : obs.nodes[i] = "Ready"})
                + Cardinality({i \in DOMAIN obs.pods : obs.pods[i]})
                + Cardinality({i \in DOMAIN obs.conditions : obs.conditions[i] = "True"})
    IN  ToString(good) \o "/" \o ToString(seen) \o " ready"

\* C21 as stated: the error of a wait that timed out carries, in its message
\* or its suggestions, the diagnostic of the last probe that was evaluated.
C21_TimeoutCarriesLastDiagnostic ==
    wt.pc = "timed_out" /\ wt.probes > 0
        => \/ InSeq(Diagnostic(wt.obs), wt.error.message)
           \/ InSeq(Diagnostic(wt.obs), wt.error.suggestions)

\* C22 as stated: wait_for_ready returns only after a probe that showed at
\* least one node and every node it showed Ready; while a node is NotReady
\* the wait does not return.
C22_ReturnsOnlyWhenEveryNodeReady ==
    wt.wait = "wait_for_ready" /\ wt.pc = "returned"
        => /\ wt.obs.nodes # <<>>
           /\ \A i \in DOMAIN wt.obs.nodes : wt.obs.nodes[i] = "Ready"

(***************************************************************************)
(* Status reports: CrossplaneInstaller.get_status and                      *)
(* BootstrapManager.get_status, each a single read of the cluster.         *)
(***************************************************************************)

\* the calls of CrossplaneInstaller.get_status that can raise, in the order
\* they are made; 6 stands for none of them
Stage(call) ==
    CASE call = "release_exists" -> 1
      [] call = "get_pods" -> 2
      [] call = "resource_exists" -> 3
      [] call = "get_resource" -> 4
      [] call = "provider_config" -> 5
      [] OTHER -> 6

StatusFaults ==
    {"none", "release_exists", "get_pods", "resource_exists", "get_resource",
     "provider_config"}

\* the status of each condition the provider reports; "None" is a condition
\* without a status, which is also what the default [{}] yields
Conditions == {<<>>, <<"None">>, <<"True">>, <<"False">>}

\* sum(1 for p in pods if p.get("ready"))
ReadyPods(pods) == Cardinality({i \in DOMAIN pods : pods[i]})

\* a report that takes the pods for ready when none of them is unready
CrossplaneReady_NoneUnready(pod_count, ready_pods) == pod_count = ready_pods

\* get_status, lines 290-292
CrossplaneReady(pod_count, ready_pods) == pod_count > 0 /\ pod_count = ready_pods

\* CrossplaneStatus() as get_status leaves it when the call numbered
\* `raised` raises and the calls before it answered as given
CrossplaneStatus(installed, pods, provider, conditions, config, raised) ==
    LET aws_installed == raised > 3 /\ provider
        aws_ready == raised > 4 /\ provider /\ conditions[1] = "True"
        is_ready == raised > 2 /\ CrossplaneReady(Len(pods), ReadyPods(pods))
    IN  [installed |-> raised > 1 /\ installed,
         pod_count |-> IF raised > 2 THEN Len(pods) ELSE 0,
         ready_pods |-> IF raised > 2 THEN ReadyPods(pods) ELSE 0,
         ready |-> is_ready,
         aws_provider_installed |-> aws_installed,
         aws_provider_ready |-> aws_ready,
         provider_config_exists |-> raised > 5 /\ config,
         issues |->
            IF raised < 6 THEN <<"Failed to get status">>
            ELSE (IF installed /\ ~ is_ready
                  THEN <<"Crossplane pods are not ready">> ELSE <<>>)
              \o (IF aws_installed /\ ~ aws_ready
                  THEN <<"AWS provider is not ready">> ELSE <<>>)
              \o (IF ~ config /\ aws_installed
                  THEN <<"ProviderConfig not found">> ELSE <<>>)]

\* the first call of get_status that raises: the one made to fail, or the
\* indexing of an empty list of conditions
Raised(provider, conditions, fault) ==
    LET index == IF provider /\ conditions = <<>> THEN 4 ELSE 6
    IN  IF Stage(fault) < index THEN Stage(fault) ELSE index

\* a report is asked for once, where no wait is under way
NoWaitUnderWay == st = NoStatus /\ wt.pc \in {"idle", "returned", "timed_out", "raised"}

StatusIdle ==
    <<file, tmp, backups, now, previous_context, last, snaps, ops, pc, handle, td, wt, bs>>

\* CrossplaneInstaller.get_status
CrossplaneGetStatus(installed, pods, provider, conditions, config, fault) ==
    /\ NoWaitUnderWay
    /\ st' = [of |-> "crossplane", pods |-> pods,
              status |-> CrossplaneStatus(installed, pods, provider, conditions, config,
                                          Raised(provider, conditions, fault))]
    /\ UNCHANGED StatusIdle

\* get_cluster_info, lines 319-326: a node is Ready when one of its
\* conditions has type Ready and status True; a node is given here by the
\* status of its Ready condition, "absent" when it has none
NodeStatus(condition) == IF condition = "True" THEN "Ready" ELSE "NotReady"

NodeInfo(conditions) == [i \in DOMAIN conditions |-> NodeStatus(conditions[i])]

\* BootstrapManager.get_status, line 221
AllReady(nodes) == \A i \in DOMAIN nodes : nodes[i] = "Ready"

\* ClusterStatus as BootstrapManager.get_status returns it
ClusterStatus(exists, info_raises, conditions) ==
    LET nodes == NodeInfo(conditions)
    IN  IF ~ exists
        THEN [exists |-> FALSE, ready |-> FALSE, context_name |-> None,
              node_count |-> 0, nodes |-> <<>>, issues |-> <<>>]
        ELSE IF info_raises
        THEN [exists |-> TRUE, ready |-> FALSE, context_name |-> None,
              node_count |-> 0, nodes |-> <<>>,
              issues |-> <<"Failed to get cluster info">>]
        ELSE [exists |-> TRUE, ready |-> AllReady(nodes),
              context_name |-> BootstrapContext,
              node_count |-> Len(nodes), nodes |-> nodes,
              issues |-> IF AllReady(nodes) THEN <<>> ELSE <<"Nodes not ready">>]

\* BootstrapManager.get_status
BootstrapGetStatus(exists, info_raises, conditions) ==
    /\ NoWaitUnderWay
    /\ st' = [of |-> "bootstrap", conditions |-> conditions,
              status |-> ClusterStatus(exists, info_raises, conditions)]
    /\ UNCHANGED StatusIdle

\* _wait_for_crossplane_ready, called where no status has been asked for
CrossplaneWait(timeout, t0) ==
    /\ st = NoStatus
    /\ WaitBegin("_wait_for_crossplane_ready", timeout, t0)

NextStatus ==
    \/ \E i \in BOOLEAN, p \in SeqsUpTo(BOOLEAN, MaxPods), a \in BOOLEAN,
          c \in Conditions, g \in BOOLEAN, f \in StatusFaults :
            CrossplaneGetStatus(i, p, a, c, g, f)
    \/ \E e \in BOOLEAN, r \in BOOLEAN, c \in SeqsUpTo({"True", "False", "absent"}, MaxNodes) :
            BootstrapGetStatus(e, r, c)
    \/ \E t \in {0, MaxTimeout} : CrossplaneWait(t, 0)
    \/ LoopTest
    \/ \E o \in UNION {Observations(w) : w \in Waits}, d \in ProbeDurations : Probe(o, d)
    \/ Sleep

SpecStatus == InitWait /\ [][NextStatus]_vars

\* C23: Crossplane is never reported ready for an empty set of pods: the
\* wait for the pods has not returned when its last probe found no pod, and
\* a status report says ready only when it counted at least one pod and as
\* many ready pods as pods.
C23_EmptyPodSetNeverReady ==
    /\ wt.wait = "_wait_for_crossplane_ready" /\ wt.pc = "returned"
         => wt.obs.pods # <<>> /\ \A i \in DOMAIN wt.obs.pods : wt.obs.pods[i]
    /\ st.of = "crossplane"
         => /\ st.status.pod_count = Len(st.pods) \/ st.status.pod_count = 0
            /\ st.status.ready
                 <=> /\ st.status.pod_count > 0
                     /\ st.status.pod_count = st.status.ready_pods
            /\ st.status.ready => st.pods # <<>>

\* a wait whose probes found no pod to the last and which timed out, then a
\* status report computed from no pods, with the release installed
C23_Witness ==
    /\ wt.wait = "_wait_for_crossplane_ready" /\ wt.pc = "timed_out"
    /\ wt.probes = 2 /\ wt.obs = NoObservation
    /\ st.of = "crossplane" /\ st.pods = <<>>
    /\ st.status.installed /\ ~ st.status.ready
    /\ st.status.issues = <<"Crossplane pods are not ready">>

\* C30 as stated: a status report of the bootstrap cluster says ready only
\* if it lists at least one node and every node it lists is Ready.
C30_ReadyOnlyWithNodesAllReady ==
    st.of = "bootstrap" /\ st.status.ready
        => /\ st.status.node_count > 0
           /\ \A i \in DOMAIN st.status.nodes : st.status.nodes[i] = "Ready"

(***************************************************************************)
(* The store on a document it has built by itself: the file is absent or   *)
(* holds the default document, and every call is one of the mutators.      *)
(***************************************************************************)

InitFresh == InitWith({Absent, File(Dump(DefaultConfig), 0)})

SpecFresh == InitFresh /\ [][Next]_vars

NoRepeat(names) == \A i, j \in DOMAIN names : names[i] = names[j] => i = j

\* C25: on a document the store has built from nothing, the three lists
\* hold the same names in the same order, no name twice, and each context
\* refers to the cluster and the user of its own name.
C25_TriplesShareNames ==
    LET d == DocOf(file)
    IN  /\ Names(d["clusters"]) = Names(d["contexts"])
        /\ Names(d["contexts"]) = Names(d["users"])
        /\ NoRepeat(Names(d["clusters"]))
        /\ \A i \in DOMAIN d["contexts"] :
              /\ d["contexts"][i].context.cluster = d["contexts"][i].name
              /\ d["contexts"][i].context.user = d["contexts"][i].name

\* the same name added twice and the first entry removed again
C25_Witness ==
    /\ last.op = "remove" /\ last.ok /\ last.name = "demo"
    /\ Names(DocOf(file)["clusters"]) = <<"demo-2">>
    /\ Names(DocOf(file)["contexts"]) = <<"demo-2">>

\* C26 as stated: on a document the store has built from nothing, the
\* current context is null or the name of a context of the document.
C26_CurrentContextPresent ==
    LET d == DocOf(file)
    IN  \/ Get(d, "current-context") = None
        \/ InSeq(Get(d, "current-context"), Names(d["contexts"]))

\* C27 as stated: a call of add_cluster or set_current_context that fails
\* leaves the store as it was: the file has the content it had and the
\* manager remembers the context it remembered.
C27_FailedCallLeavesStoreAsItWas ==
    [][IsCall /\ last'.op \in {"add", "set_current"} /\ ~ last'.ok
          => /\ SameContent(file', file)
             /\ previous_context' = previous_context]_vars

(***************************************************************************)
(* The store with a backups directory that earlier calls have filled: it   *)
(* holds max_backups snapshots, one taken in each of the seconds before.   *)
(***************************************************************************)

RECURSIVE EarlierBackups(_)
EarlierBackups(n) ==
    IF n = 0 THEN {}
    ELSE CreateBackup(EarlierBackups(n - 1),
                      File(Dump(DefaultConfig), (n - max_backups - 2) * TicksPerSec),
                      (n - max_backups - 1) * TicksPerSec)

InitBackups ==
    /\ file = File(Dump(TwoClusters), 0)
    /\ tmp = Absent
    /\ backups = EarlierBackups(max_backups)
    /\ now = 0
    /\ previous_context = [m \in Instances |-> None]
    /\ last = NoCall
    /\ snaps = [texts |-> <<>>, faults |-> 0]
    /\ ops = 0
    /\ pc = [w \in Instances |-> "idle"]
    /\ handle = [w \in Instances |-> "none"]
    /\ td = NoTeardown
    /\ wt = NoWait
    /\ st = NoStatus
    /\ bs = NoBootstrap

SpecBackups == InitBackups /\ [][NextIO]_vars

\* C28 as stated: when a call of _write_config is over, returned or raised
\* at whatever step, the backups directory holds at most max_backups files.
C28_AtMostMaxBackups ==
    [][IsCall /\ last'.failedAt \notin {"read", "not_found"}
          => Cardinality(backups') <= max_backups]_vars

(***************************************************************************)
(* The lifecycle of the bootstrap cluster: runs of                         *)
(* BootstrapManager.create_cluster and delete_cluster, one after another,  *)
(* each by a manager of its own, over one kind installation and one        *)
(* kubeconfig file.  bs.kind says whether kind has the cluster; bs.trace   *)
(* lists the calls the run under way has made and how each ended;          *)
(* bs.added holds the names that runs of create_cluster have registered.   *)
(***************************************************************************)

MaxRuns == 3

\* where a run is over
Over == {"idle", "done", "raised"}

Called(call, ok) == [call |-> call, ok |-> ok]

\* a run that treats a failed call as a warning and goes on
AfterCall_WarnAndGoOn(next, e) == next

\* create_cluster, lines 97-109: "except Exception as e: ... raise"
AfterCall(next, e) == IF e = None THEN next ELSE "raised"

\* where delete_cluster is left: back in create_cluster when it was called
\* from there (lines 78-83), else the run is over
AfterDelete(b) == IF b.nested THEN "kind_create" ELSE "done"

BeginRun(run, at, raised) ==
    [bs EXCEPT !.run = run, !.pc = at, !.nested = FALSE, !.runs = @ + 1,
               !.trace = <<>>, !.errors = <<>>, !.raised = raised]

LifecycleIdle == <<tmp, now, pc, handle, td, wt, st>>

\* create_cluster, lines 72-93: the prerequisites, then cluster_exists, which
\* is False also when kind does not answer (kind_client.py 138-142)
BeginCreate(prerequisites_met, force_recreate, kind_answers) ==
    /\ bs.pc \in Over /\ bs.runs < MaxRuns
    /\ bs' = IF ~ prerequisites_met THEN BeginRun("create", "raised", TRUE)
             ELSE IF ~ (bs.kind /\ kind_answers) THEN BeginRun("create", "kind_create", FALSE)
             ELSE IF force_recreate
             THEN [BeginRun("create", "delete_check", FALSE) EXCEPT !.nested = TRUE]
             ELSE BeginRun("create", "raised", TRUE)
    /\ previous_context' = Remember(previous_context, 1, None)
    /\ UNCHANGED <<file, backups, last, snaps, ops, LifecycleIdle>>

\* a run of delete_cluster, by a manager with a KubeconfigManager of its own
BeginDelete ==
    /\ bs.pc \in Over /\ bs.runs < MaxRuns
    /\ bs' = BeginRun("delete", "delete_check", FALSE)
    /\ previous_context' = Remember(previous_context, 1, None)
    /\ UNCHANGED <<file, backups, last, snaps, ops, LifecycleIdle>>

\* delete_cluster, lines 153-167; create_cluster calls it with
\* skip_confirmation=True
CheckExists(kind_answers, skip_confirmation, confirmed) ==
    /\ bs.pc = "delete_check"
    /\ bs.run = "create" => skip_confirmation
    /\ bs' = IF ~ (bs.kind /\ kind_answers) \/ (~ skip_confirmation /\ ~ confirmed)
             THEN [bs EXCEPT !.pc = AfterDelete(bs)]
             ELSE [bs EXCEPT !.pc = "kind_delete"]
    /\ UNCHANGED <<file, backups, last, snaps, ops, previous_context, LifecycleIdle>>

\* delete_cluster, lines 173-178, and KindClient.delete_cluster
KindDelete(e) ==
    /\ bs.pc = "kind_delete"
    /\ bs' = [bs EXCEPT
                !.kind = IF e = None THEN FALSE ELSE @,
                !.trace = Append(@, Called("delete_cluster", e = None)),
                !.errors = Recorded(@, DeleteErrors[1], e),
                !.pc = "kubeconfig_remove"]
    /\ UNCHANGED <<file, backups, last, snaps, ops, previous_context, LifecycleIdle>>

\* delete_cluster, lines 180-191
KubeconfigRemove(fault) ==
    /\ bs.pc = "kubeconfig_remove"
    /\ FaultApplies(file, backups, fault)
    /\ LET r == ReadConfig(file)
       IN  IF ~ (r.ok /\ ClusterFound(r.config, BootstrapContext))
           THEN /\ fault = "none"
                /\ ops' = ops + 1
                /\ last' = Returned("exists", 1, BootstrapContext, FALSE, ReadError(file))
                /\ bs' = [bs EXCEPT !.pc = AfterDelete(bs)]
                /\ UNCHANGED <<file, backups, snaps>>
           ELSE /\ ops' = ops + 2
                /\ Persist("remove", 1, BootstrapContext, TRUE, None,
                           WithoutCluster(r.config, BootstrapContext, TRUE,
                                          previous_context[1]),
                           fault)
                /\ bs' = [bs EXCEPT
                            !.trace = Append(@, Called("remove_cluster", last'.ok)),
                            !.errors = Recorded(@, DeleteErrors[2],
                                                IF last'.ok THEN None ELSE WriteFailed),
                            !.pc = AfterDelete(bs)]
    /\ UNCHANGED <<previous_context, LifecycleIdle>>

\* create_cluster, lines 95-101, and KindClient.create_cluster, which raises
\* when the cluster exists; kind may leave a cluster it failed to create
KindCreate(e, left_behind) ==
    /\ bs.pc = "kind_create"
    /\ LET err == IF bs.kind THEN "exists" ELSE e
       IN  bs' = [bs EXCEPT
                    !.kind = IF bs.kind THEN TRUE
                             ELSE IF e = None THEN TRUE ELSE left_behind,
                    !.trace = Append(@, Called("create_cluster", err = None)),
                    !.raised = (AfterCall("wait", err) = "raised"),
                    !.pc = AfterCall("wait", err)]
    /\ UNCHANGED <<file, backups, last, snaps, ops, previous_context, LifecycleIdle>>

\* create_cluster, lines 103-109
WaitForReady(e) ==
    /\ bs.pc = "wait"
    /\ bs' = [bs EXCEPT
                !.trace = Append(@, Called("wait_for_ready", e = None)),
                !.raised = (AfterCall("configure", e) = "raised"),
                !.pc = AfterCall("configure", e)]
    /\ UNCHANGED <<file, backups, last, snaps, ops, previous_context, LifecycleIdle>>

\* create_cluster, lines 111-141: get_kubeconfig, which raises or yields a
\* document with the cluster kind-mk8-bootstrap or with none, add_cluster,
\* and "except Exception" around both
ConfigureKubectl(kubeconfig, fault) ==
    /\ bs.pc = "configure"
    /\ FaultApplies(file, backups, fault)
    /\ IF kubeconfig # "clusters"
       THEN /\ fault = "none"
            /\ bs' = [bs EXCEPT
                        !.trace = Append(@, Called("get_kubeconfig", kubeconfig # "raises")),
                        !.pc = "done"]
            /\ UNCHANGED <<file, backups, last, snaps, ops, previous_context>>
       ELSE LET r == ReadConfig(file)
                final == FinalClusterName(r.config, BootstrapContext)
            IN  /\ ops' = ops + 1
                /\ IF ~ r.ok
                   THEN /\ Raise("add", 1, BootstrapContext, TRUE, "read")
                        /\ UNCHANGED previous_context
                   ELSE /\ previous_context' =
                               Remember(previous_context, 1,
                                        PreviousOnAdd(previous_context[1], r.config, TRUE))
                        /\ Persist("add", 1, BootstrapContext, TRUE, final,
                                   WithCluster(r.config, final, "p", TRUE), fault)
                /\ bs' = [bs EXCEPT
                            !.trace = Append(Append(@, Called("get_kubeconfig", TRUE)),
                                             Called("add_cluster", last'.ok)),
                            !.added = IF Renamed(last') THEN @ \cup {final} ELSE @,
                            !.pc = "done"]
    /\ UNCHANGED LifecycleIdle

InitLifecycle == InitWith({Absent, File(Dump(TwoClusters), 0)})

NextLifecycle ==
    \/ \E p \in BOOLEAN, f \in BOOLEAN, k \in BOOLEAN : BeginCreate(p, f, k)
    \/ BeginDelete
    \/ \E k \in BOOLEAN, s \in BOOLEAN, c \in BOOLEAN : CheckExists(k, s, c)
    \/ \E e \in {None, "failed"} : KindDelete(e)
    \/ \E fault \in TeardownFaults : KubeconfigRemove(fault)
    \/ \E e \in {None, "failed"}, l \in BOOLEAN : KindCreate(e, l)
    \/ \E e \in {None, "timeout"} : WaitForReady(e)
    \/ \E k \in {"raises", "empty", "clusters"}, fault \in TeardownFaults :
          ConfigureKubectl(k, fault)

SpecLifecycle == InitLifecycle /\ [][NextLifecycle]_vars

\* the places of a trace at which the call was made
At(trace, call) == {i \in DOMAIN trace : trace[i].call = call}

\* C24: in a run of create_cluster, add_cluster is called only after kind
\* has created the cluster and after wait_for_ready has returned, in that
\* order; when either of the two fails the run raises and has not called
\* add_cluster.
C24_AddClusterOnlyAfterCreateAndWait ==
    bs.run = "create" =>
        /\ \A i \in At(bs.trace, "add_cluster") :
              \E j, k \in 1..(i - 1) :
                  /\ j < k
                  /\ bs.trace[j] = Called("create_cluster", TRUE)
                  /\ bs.trace[k] = Called("wait_for_ready", TRUE)
        /\ \/ InSeq(Called("create_cluster", FALSE), bs.trace)
           \/ InSeq(Called("wait_for_ready", FALSE), bs.trace)
           => /\ bs.pc = "raised" /\ bs.raised
              /\ At(bs.trace, "add_cluster") = {}

\* a run that recreated the cluster and registered it
C24_Witness ==
    /\ bs.run = "create" /\ bs.pc = "done" /\ bs.runs = 2
    /\ bs.trace = <<Called("delete_cluster", TRUE), Called("create_cluster", TRUE),
                    Called("wait_for_ready", TRUE), Called("get_kubeconfig", TRUE),
                    Called("add_cluster", TRUE)>>

\* C29 as stated: once a run of delete_cluster has returned with the kind
\* cluster absent and no failure recorded, the kubeconfig holds no cluster
\* that a run of create_cluster registered.
C29_NoEntryStaysBehind ==
    bs.run = "delete" /\ bs.pc = "done" /\ ~ bs.kind /\ bs.errors = <<>>
        => \A n \in bs.added : ~ ClusterFound(DocOf(file), n)

====
